---- MODULE Spec2Model ----
(***************************************************************************)
(* The Streamlit dashboard of app.py as a state machine.                   *)
(*                                                                         *)
(* One "script run" executes app.py top to bottom.  The run is cut at the  *)
(* places where it can stop (st.rerun, st.stop, an uncaught exception):    *)
(* the toggle block, load_data, the sidebar filters, and the five tabs.    *)
(* Between runs the user changes one widget or clicks one button, which    *)
(* makes Streamlit run the script again with the new widget state.         *)
(*                                                                         *)
(* Values.  A user id "user_<n>" is the number n.  A content string and a  *)
(* search term are sequences of one-character strings.  A timestamp in the *)
(* CSV is the text of a day and a minute, <<day, minute>>; pd.to_datetime  *)
(* turns it into one comparable number.  A degree centrality, a float in   *)
(* the code, is kept as the exact fraction [num, den].  Layout coordinates,*)
(* colours, the likes/comments/username columns and the static alert texts *)
(* take no part in any computed value and are left out.                    *)
(***************************************************************************)
EXTENDS Integers, Sequences, FiniteSets, TLC

\* ---------------------------------------------------------------- bounds
MaxPosts == 2          \* rows of an enumerated posts table
MaxEdges == 2          \* rows of an enumerated edges table
MaxInteractions == 1   \* user interactions in one session
MaxReruns == 2         \* consecutive st.rerun() counted
LongPosts == 21        \* rows of the long posts table (more than head(20))
LongNodes == 11        \* nodes of the long edges table (more than head(10))

\* ------------------------------------------------------ program constants
DefaultMinScore == 70      \* st.sidebar.slider(..., 0, 100, 70)
HighRiskScore == 85        \* misinfo_score > 85
SpreaderRows == 10         \* spreader_data ... .head(10)
SummarySpreaderRows == 5   \* spreader_data.head(5)
DisplayRows == 20          \* display_posts.head(20)
EngagementRows == 10       \* nlargest(10, 'shares')
RecoveryRows == 5          \* recovery_queue ... .head(5)
DefaultMinConnections == 2 \* st.slider("Minimum Connections to Show", 1, 10, 2)

\* ---------------------------------------------------------------- helpers
Range(s) == {s[i] : i \in DOMAIN s}

Min(a, b) == IF a <= b THEN a ELSE b

\* df.head(n)
Head_n(s, n) == SubSeq(s, 1, Min(n, Len(s)))

\* Sequences over S of length at most n.
SeqsUpTo(S, n) == UNION {[1..k -> S] : k \in 0..n}

IsInjective(s) == \A i, j \in DOMAIN s : s[i] = s[j] => i = j

\* ------------------------------------------------------------ input tables
\* data/sample_posts.csv rows.  timestamp is the CSV text <<day, minute>>.
Post(id, pl, cat, con, usr, ts, sc, sh, stt, arch, url) ==
    [post_id |-> id, platform |-> pl, category |-> cat, content |-> con,
     user_id |-> usr, timestamp |-> ts, misinfo_score |-> sc, shares |-> sh,
     status |-> stt, archived |-> arch, archive_url |-> url]

\* The fourth post breaks "archive_url is set iff archived", which the
\* specification calls non-fatal.
DefaultPostTable ==
    << Post(1, "Reddit",  "Vaccines", <<"a", "B">>,      1, <<1, 5>>, 90,  5, "False",      TRUE,  "url"),
       Post(2, "Twitter", "Vaccines", <<"b", ".">>,      2, <<1, 7>>, 60,  5, "Misleading", FALSE, ""),
       Post(3, "Twitter", "Cures",    <<"B", "a", "a">>, 1, <<2, 5>>, 70,  9, "False",      FALSE, ""),
       Post(4, "Reddit",  "Cures",    <<"b">>,           3, <<2, 5>>, 100, 5, "Unverified", TRUE,  "") >>

PostPool == Range(DefaultPostTable)

\* Every table of at most MaxPosts distinct pool posts, in every order.
SmallPostTables == {t \in SeqsUpTo(PostPool, MaxPosts) : IsInjective(t)}

\* A table longer than the head(20) and nlargest(10) cuts.  Shares tie at the
\* top (the last two rows) and at the bottom (the first two rows); scores and
\* timestamps are all different.
LongPostTable ==
    [i \in 1..LongPosts |->
        Post(i,
             IF i % 2 = 0 THEN "Reddit" ELSE "Twitter",
             IF i % 3 = 0 THEN "Cures" ELSE "Vaccines",
             IF i % 2 = 0 THEN <<"a", "B">> ELSE <<"b", ".">>,
             (i % 3) + 1,
             <<(i + 1) \div 2, i % 2>>,
             DefaultMinScore + i,
             IF i = LongPosts THEN i - 1 ELSE IF i = 2 THEN 1 ELSE i,
             IF i % 2 = 0 THEN "False" ELSE "Misleading",
             i % 4 = 0,
             IF i % 4 = 0 THEN "url" ELSE "")]

\* data/network_edges.csv rows.
Users == {1, 2}
Weights == {1, 2}
Edge(s, t, w) == [source |-> s, target |-> t, weight |-> w]
\* The rows of the enumerated tables: every pair of users with every weight,
\* a self-loop with weight 1 only.
EdgeRows ==
    {r \in {Edge(s, t, w) : s \in Users, t \in Users, w \in Weights} :
        r.source = r.target => r.weight = 1}
\* Every table of at most MaxEdges distinct rows, in every order.  (A row
\* repeated exactly adds the same edge with the same weight a second time.)
SmallEdgeTables == {t \in SeqsUpTo(EdgeRows, MaxEdges) : IsInjective(t)}

\* The scenario of the specification: A-B with weight 2, B-C with weight 1.
ScenarioEdgeTable == <<Edge(1, 2, 2), Edge(2, 3, 1)>>

\* A graph of LongNodes nodes: i and j are joined when i + j > LongNodes.
\* Degrees are 1, 2, ..., with exactly one pair of nodes of equal degree.
RECURSIVE SetToSeq(_)
SetToSeq(S) ==
    IF S = {} THEN <<>>
    ELSE LET x == CHOOSE y \in S : \A z \in S :
                      \/ y[1] < z[1]
                      \/ (y[1] = z[1] /\ y[2] <= z[2])
         IN <<x>> \o SetToSeq(S \ {x})

LongEdgeTable ==
    LET pairs == {<<i, j>> \in (1..LongNodes) \X (1..LongNodes) :
                      i < j /\ i + j > LongNodes}
        s == SetToSeq(pairs)
    IN [k \in DOMAIN s |-> Edge(s[k][1], s[k][2], 1)]

\* A file on disk: present and parsed by pd.read_csv into the expected
\* columns ("ok"), absent ("missing"), or such that pd.read_csv raises
\* ("unparseable").
File(st, rows) == [state |-> st, rows |-> rows]

PostsFiles ==
    {File("ok", t) : t \in SmallPostTables \cup {DefaultPostTable, LongPostTable}}
        \cup {File("missing", <<>>), File("unparseable", <<>>)}

EdgesFiles ==
    {File("ok", t) : t \in SmallEdgeTables \cup {ScenarioEdgeTable, LongEdgeTable}}
        \cup {File("missing", <<>>), File("unparseable", <<>>)}

DefaultPostsFile == File("ok", DefaultPostTable)
DefaultEdgesFile == File("ok", ScenarioEdgeTable)

\* ------------------------------------------------------- pandas operations
\* pd.to_datetime of one CSV timestamp: a comparable point in time.
to_datetime(ts) == ts[1] * 1440 + ts[2]

\* Timestamp.date(): the calendar day of a point in time.
dt_date(t) == t \div 1440

\* posts_df['timestamp'] = pd.to_datetime(posts_df['timestamp'])
convert_timestamps(df) ==
    [i \in DOMAIN df |-> [df[i] EXCEPT !.timestamp = to_datetime(df[i].timestamp)]]

\* Series.isin(values): one boolean per row.
isin(df, col, values) == [i \in DOMAIN df |-> df[i][col] \in values]

\* Series >= n: one boolean per row.
ge(df, col, n) == [i \in DOMAIN df |-> df[i][col] >= n]

\* df[mask]: the rows whose mask is True, in their order.
boolean_index(df, mask) ==
    LET keep == {i \in DOMAIN df : mask[i]}
    IN [k \in 1..Cardinality(keep) |->
           df[CHOOSE i \in keep : Cardinality({j \in keep : j <= i}) = k]]

\* Series.unique() as the set of values (multiselect options).
unique(df, col) == {df[i][col] : i \in DOMAIN df}

\* Series.value_counts(): each value that occurs, with its count.  The order
\* of the entries is not kept.
value_counts(df, col) ==
    [v \in unique(df, col) |-> Cardinality({i \in DOMAIN df : df[i][col] = v})]

\* groupby(timestamp.dt.date).size(): posts per calendar day.
timeline(df) ==
    [d \in {dt_date(df[i].timestamp) : i \in DOMAIN df} |->
        Cardinality({i \in DOMAIN df : dt_date(df[i].timestamp) = d})]

\* A stable descending sort (mergesort): a row goes after every row of
\* larger key and after the earlier rows of equal key.
stable_sort_desc(df, col) ==
    LET place(i) == 1 + Cardinality({j \in DOMAIN df : df[j][col] > df[i][col]})
                      + Cardinality({j \in 1..(i - 1) : df[j][col] = df[i][col]})
    IN [k \in DOMAIN df |-> df[CHOOSE i \in DOMAIN df : place(i) = k]]

\* Every order of a sorted frame that differs only inside runs of equal keys.
tie_orders(sorted, col) ==
    LET tied == {i \in DOMAIN sorted :
                    \E j \in DOMAIN sorted : j # i /\ sorted[j][col] = sorted[i][col]}
        swaps == {q \in Permutations(tied) :
                    \A i \in tied : sorted[q[i]][col] = sorted[i][col]}
    IN {[i \in DOMAIN sorted |-> IF i \in tied THEN sorted[q[i]] ELSE sorted[i]] :
           q \in swaps}

\* df.sort_values(col, ascending=False): pandas sorts with kind='quicksort',
\* which numpy documents as not stable (its vectorised argsort reorders equal
\* keys even in short arrays), so the order of rows of equal key is not
\* determined.  The set of frames the call may return.
sort_values_desc(df, col) == tie_orders(stable_sort_desc(df, col), col)

\* nlargest with keep='last': rows of equal key in reverse order.
nlargest_keep_last(df, n, col) ==
    LET rev == [i \in DOMAIN df |-> df[Len(df) + 1 - i]]
        place(i) == 1 + Cardinality({j \in DOMAIN rev : rev[j][col] > rev[i][col]})
                      + Cardinality({j \in 1..(i - 1) : rev[j][col] = rev[i][col]})
    IN Head_n([k \in DOMAIN rev |-> rev[CHOOSE i \in DOMAIN rev : place(i) = k]], n)

\* df.nlargest(n, col) with keep='first': the n largest, descending, rows of
\* equal key in their original order.
nlargest(df, n, col) == Head_n(stable_sort_desc(df, col), n)

\* ------------------------------------------------ Series.str.contains (re)
Lower(c) == IF c = "A" THEN "a" ELSE IF c = "B" THEN "b" ELSE c

\* One pattern character against one text character under re.IGNORECASE.
char_match(c, x) == c = "." \/ Lower(c) = Lower(x)

\* re.compile(pat) raises re.error: an unterminated group, or a repeat with
\* nothing before it or right after another repeat.
re_error(pat) ==
    \E i \in DOMAIN pat :
        \/ pat[i] = "("
        \/ pat[i] = "*" /\ (i = 1 \/ pat[i - 1] = "*")

\* pat[i..] matches a prefix of s[j..].
RECURSIVE match_here(_, _, _, _)
match_here(pat, i, s, j) ==
    IF i > Len(pat) THEN TRUE
    ELSE IF i + 1 <= Len(pat) /\ pat[i + 1] = "*"
         THEN \E k \in j..(Len(s) + 1) :
                  /\ \A m \in j..(k - 1) : char_match(pat[i], s[m])
                  /\ match_here(pat, i + 2, s, k)
         ELSE /\ j <= Len(s)
              /\ char_match(pat[i], s[j])
              /\ match_here(pat, i + 1, s, j + 1)

\* regex.search(s) is not None
re_search(pat, s) == \E j \in 1..(Len(s) + 1) : match_here(pat, 1, s, j)

\* Series.str.contains(pat, case=False, na=False): regex=True is the default.
str_contains(df, col, pat) == [i \in DOMAIN df |-> re_search(pat, df[i][col])]

\* ------------------------------------------------------ networkx operations
EmptyGraph == [nodes |-> <<>>, adj |-> [n \in {} |-> [m \in {} |-> 0]]]

\* degree as G.degree(node, weight='weight'): the weights summed.
RECURSIVE SumOver(_, _)
SumOver(f, S) ==
    IF S = {} THEN 0
    ELSE LET x == CHOOSE y \in S : TRUE IN f[x] + SumOver(f, S \ {x})

degree_weighted(g, n) ==
    SumOver(g.adj[n], DOMAIN g.adj[n]) + (IF n \in DOMAIN g.adj[n] THEN g.adj[n][n] ELSE 0)

\* G.degree(node): len(nbrs) + (node in nbrs), a self-loop counting twice.
degree(g, n) ==
    Cardinality(DOMAIN g.adj[n]) + (IF n \in DOMAIN g.adj[n] THEN 1 ELSE 0)

\* nx_degree_centrality dividing by len(G) instead of len(G) - 1.
nx_degree_centrality_by_n(g) ==
    IF Len(g.nodes) <= 1
    THEN [n \in Range(g.nodes) |-> [num |-> 1, den |-> 1]]
    ELSE [n \in Range(g.nodes) |-> [num |-> degree(g, n), den |-> Len(g.nodes)]]

\* nx.degree_centrality(G): {n: 1} when len(G) <= 1, else d / (len(G) - 1).
nx_degree_centrality(g) ==
    IF Len(g.nodes) <= 1
    THEN [n \in Range(g.nodes) |-> [num |-> 1, den |-> 1]]
    ELSE [n \in Range(g.nodes) |-> [num |-> degree(g, n), den |-> Len(g.nodes) - 1]]

\* 'Risk Level' of the spreader table.
risk_level(d) == IF d > 3 THEN "High" ELSE IF d > 1 THEN "Medium" ELSE "Low"

\* The rows of spreader_data before sorting, one per node in G.nodes() order.
spreader_rows(g, centrality) ==
    [i \in DOMAIN g.nodes |->
        [user_id |-> g.nodes[i],
         connections |-> degree(g, g.nodes[i]),
         centrality |-> centrality[g.nodes[i]],
         risk |-> risk_level(degree(g, g.nodes[i]))]]

\* Line 225: the nodes of G, in G.nodes() order, whose degree in G is at
\* least min_connections.
filtered_nodes(g, min_connections) ==
    boolean_index(g.nodes,
                  [i \in DOMAIN g.nodes |-> degree(g, g.nodes[i]) >= min_connections])

\* G.subgraph(nodes): the nodes of G that are in nodes, in G's order, and
\* the edges of G that join two of them (a self-loop of a kept node too).
subgraph(g, nodes) ==
    LET kept == Range(nodes) \cap Range(g.nodes)
    IN [nodes |-> boolean_index(g.nodes, [i \in DOMAIN g.nodes |-> g.nodes[i] \in kept]),
        adj |-> [u \in kept |-> [v \in DOMAIN g.adj[u] \cap kept |-> g.adj[u][v]]]]

\* Lines 264-275: the hover text of each node drawn: 'Connections' is
\* G_filtered.degree(node), 'Centrality' is degree_centrality[node] of G.
\* Every layout gives each node of G a position, so every node of G_filtered
\* is drawn.
node_trace(g_filtered, centrality) ==
    [i \in DOMAIN g_filtered.nodes |->
        [node |-> g_filtered.nodes[i],
         connections |-> degree(g_filtered, g_filtered.nodes[i]),
         centrality |-> centrality[g_filtered.nodes[i]]]]

\* ------------------------------------------------------------------- state
VARIABLES
    posts_file,         \* data/sample_posts.csv
    edges_file,         \* data/network_edges.csv
    cache,              \* what st.cache_data holds for load_data
    widget,             \* the widget values Streamlit keeps between runs
    clicked,            \* the button whose click started this run, if any
    interactions,       \* user interactions so far
    pc,                 \* where the script run is
    reruns,             \* consecutive runs ended by st.rerun()
    posts_df,           \* the run's copy of the posts table
    edges_df,           \* the run's copy of the edges table
    criteria,           \* selected_platform, selected_category, min_score
    filtered_posts,     \* the working set
    metrics,            \* the four st.metric values
    dashboard,          \* the aggregates of tab1
    G,                  \* the graph of tab2
    degree_centrality,  \* nx.degree_centrality(G)
    G_filtered,         \* G restricted by the minimum connections slider
    node_text,          \* the hover text of the nodes drawn in the network
    spreader_data,      \* the top super spreaders table
    display_posts,      \* the searched and sorted posts of tab3
    archive_buttons,    \* post ids whose Archive button is on the page
    recovery_queue,     \* the context recovery queue of tab4
    analytics,          \* engagement_data, status_data and the download of tab5
    rendered,           \* the parts of the page this run has drawn
    error,              \* the exception that ended the run, or "none"
    sorted_spreaders,   \* the order sort_values gave the spreader rows it last sorted
    first_graph_view    \* the graph view of the first run that drew tab2

files == <<posts_file, edges_file>>
session == <<widget, clicked, interactions>>
history == <<sorted_spreaders, first_graph_view>>
run == <<pc, reruns, posts_df, edges_df, criteria, filtered_posts, metrics,
         dashboard, G, degree_centrality, G_filtered, node_text, spreader_data,
         display_posts,
         archive_buttons, recovery_queue, analytics, rendered, error>>
vars == <<files, cache, session, run, history>>

\* A click: the button, and the post of an "Archive <post_id>" button.
Click(b, id) == [button |-> b, post_id |-> id]
NoClick == Click("none", 0)

NoCriteria == [platforms |-> {}, categories |-> {}, minScore |-> 0, applied |-> FALSE]
NoMetrics == [total |-> 0, delta |-> 0, high_risk |-> 0, archived |-> 0, spreaders |-> 0]
NoCounts == [v \in {} |-> 0]
NoDashboard == [platform_counts |-> NoCounts, category_counts |-> NoCounts,
                timeline_data |-> NoCounts, hist_x |-> <<>>]
NoAnalytics == [download |-> "none", data |-> <<>>, engagement_data |-> <<>>,
                status_data |-> NoCounts]
NoCentrality == [n \in {} |-> [num |-> 0, den |-> 1]]
NoSortedSpreaders == [seen |-> FALSE, input |-> <<>>, output |-> <<>>]
NoGraphView == [seen |-> FALSE, criteria |-> NoCriteria, G |-> EmptyGraph,
                degree_centrality |-> NoCentrality, spreader_data |-> <<>>,
                edges_df |-> <<>>]

\* The widget values of a fresh session: the checkbox unchecked, both
\* multiselects at their default (every option), the slider at 70, an empty
\* search box, "Timestamp" in the sort selectbox.
FreshWidgets ==
    [auto_refresh |-> FALSE,
     platform_set |-> FALSE, platform |-> {},
     category_set |-> FALSE, category |-> {},
     min_score |-> DefaultMinScore,
     min_connections |-> DefaultMinConnections,
     search_term |-> <<>>,
     sort_by |-> "Timestamp"]

\* A script run starts with nothing computed and nothing drawn.
RunStarts ==
    /\ pc' = "toggle"
    /\ posts_df' = <<>>
    /\ edges_df' = <<>>
    /\ criteria' = NoCriteria
    /\ filtered_posts' = <<>>
    /\ metrics' = NoMetrics
    /\ dashboard' = NoDashboard
    /\ G' = EmptyGraph
    /\ degree_centrality' = NoCentrality
    /\ G_filtered' = EmptyGraph
    /\ node_text' = <<>>
    /\ spreader_data' = <<>>
    /\ display_posts' = <<>>
    /\ archive_buttons' = {}
    /\ recovery_queue' = <<>>
    /\ analytics' = NoAnalytics
    /\ rendered' = {}
    /\ error' = "none"

\* The posts table and the edges table are varied one at a time: the graph
\* of tab2 never reads the posts, and no other tab reads the edges.
Init ==
    /\ posts_file \in PostsFiles
    /\ edges_file \in EdgesFiles
    /\ posts_file = DefaultPostsFile \/ edges_file = DefaultEdgesFile
    /\ cache = [loaded |-> FALSE, posts |-> <<>>, edges |-> <<>>]
    /\ widget = FreshWidgets
    /\ clicked = NoClick
    /\ interactions = 0
    /\ pc = "toggle"
    /\ reruns = 0
    /\ posts_df = <<>>
    /\ edges_df = <<>>
    /\ criteria = NoCriteria
    /\ filtered_posts = <<>>
    /\ metrics = NoMetrics
    /\ dashboard = NoDashboard
    /\ G = EmptyGraph
    /\ degree_centrality = NoCentrality
    /\ G_filtered = EmptyGraph
    /\ node_text = <<>>
    /\ sorted_spreaders = NoSortedSpreaders
    /\ first_graph_view = NoGraphView
    /\ spreader_data = <<>>
    /\ display_posts = <<>>
    /\ archive_buttons = {}
    /\ recovery_queue = <<>>
    /\ analytics = NoAnalytics
    /\ rendered = {}
    /\ error = "none"

\* ------------------------------------------------------------ the script run
\* Lines 52-64: the Live Updates checkbox.  When it is checked the script
\* calls st.rerun() at once, which ends this run and starts the next one with
\* the same widget values.
Toggle ==
    /\ pc = "toggle"
    /\ IF widget.auto_refresh
       THEN /\ reruns < MaxReruns
            /\ reruns' = reruns + 1
            /\ pc' = "toggle"
            /\ rendered' = {}
       ELSE /\ reruns' = reruns
            /\ pc' = "load"
            /\ rendered' = rendered \cup {"toggle"}
    /\ UNCHANGED <<files, history, cache, session, posts_df, edges_df, criteria,
                   filtered_posts, metrics, dashboard, G, degree_centrality, G_filtered, node_text,
                   spreader_data, display_posts, archive_buttons,
                   recovery_queue, analytics, error>>

\* load_data returning empty tables in place of a file it cannot read.
load_data_default(c, pf, ef) ==
    IF c.loaded
    THEN [outcome |-> "ok", error |-> "none", posts |-> c.posts, edges |-> c.edges, cache |-> c]
    ELSE LET posts == IF pf.state = "ok" THEN pf.rows ELSE <<>>
             edges == IF ef.state = "ok" THEN ef.rows ELSE <<>>
         IN [outcome |-> "ok", error |-> "none", posts |-> posts, edges |-> edges,
             cache |-> [loaded |-> TRUE, posts |-> posts, edges |-> edges]]

\* Lines 69-77: load_data under st.cache_data.  A cached result is returned
\* as a copy.  Otherwise the posts file is read, then the edges file: a
\* missing file is caught (st.error, st.stop), a file pandas cannot parse
\* raises out of the script.  Only a returned result is cached.
load_data(c, pf, ef) ==
    IF c.loaded
    THEN [outcome |-> "ok", error |-> "none", posts |-> c.posts, edges |-> c.edges, cache |-> c]
    ELSE IF pf.state = "missing"
    THEN [outcome |-> "stopped", error |-> "none", posts |-> <<>>, edges |-> <<>>, cache |-> c]
    ELSE IF pf.state = "unparseable"
    THEN [outcome |-> "error", error |-> "ParserError", posts |-> <<>>, edges |-> <<>>, cache |-> c]
    ELSE IF ef.state = "missing"
    THEN [outcome |-> "stopped", error |-> "none", posts |-> <<>>, edges |-> <<>>, cache |-> c]
    ELSE IF ef.state = "unparseable"
    THEN [outcome |-> "error", error |-> "ParserError", posts |-> <<>>, edges |-> <<>>, cache |-> c]
    ELSE [outcome |-> "ok", error |-> "none", posts |-> pf.rows, edges |-> ef.rows,
          cache |-> [loaded |-> TRUE, posts |-> pf.rows, edges |-> ef.rows]]

\* Lines 79-82: the call of load_data and the timestamp conversion, which
\* writes into the run's copy of the posts table.
Load ==
    /\ pc = "load"
    /\ LET r == load_data(cache, posts_file, edges_file)
       IN /\ cache' = r.cache
          /\ IF r.outcome = "ok"
             THEN /\ posts_df' = convert_timestamps(r.posts)
                  /\ edges_df' = r.edges
                  /\ pc' = "filter"
                  /\ rendered' = rendered
             ELSE /\ posts_df' = posts_df
                  /\ edges_df' = edges_df
                  /\ pc' = r.outcome
                  /\ rendered' = IF r.outcome = "stopped"
                                 THEN rendered \cup {"load_error"} ELSE rendered
          /\ error' = r.error
    /\ UNCHANGED <<files, history, session, reruns, criteria, filtered_posts, metrics,
                   dashboard, G, degree_centrality, G_filtered, node_text, spreader_data, display_posts,
                   archive_buttons, recovery_queue, analytics>>

\* Lines 88-98: a multiselect returns the user's selection, or its default
\* (every option) while the user has not touched it.
multiselect(is_set, value, options) == IF is_set THEN value ELSE options

\* apply_filters with an empty selection taken as "no filter".
apply_filters_empty_is_all(df, platforms, categories, score) ==
    LET m1 == isin(df, "platform", IF platforms = {} THEN unique(df, "platform") ELSE platforms)
        m2 == isin(df, "category", IF categories = {} THEN unique(df, "category") ELSE categories)
        m3 == ge(df, "misinfo_score", score)
    IN boolean_index(df, [i \in DOMAIN df |-> m1[i] /\ m2[i] /\ m3[i]])

\* Lines 103-107: the three masks combined with &.
apply_filters(df, platforms, categories, score) ==
    LET m1 == isin(df, "platform", platforms)
        m2 == isin(df, "category", categories)
        m3 == ge(df, "misinfo_score", score)
    IN boolean_index(df, [i \in DOMAIN df |-> m1[i] /\ m2[i] /\ m3[i]])

\* len(filtered_posts[filtered_posts['misinfo_score'] > 85])
high_risk_count(df) ==
    Cardinality({i \in DOMAIN df : df[i].misinfo_score > HighRiskScore})

\* filtered_posts['archived'].sum()
archived_sum(df) == Cardinality({i \in DOMAIN df : df[i].archived})

\* Lines 110-125: the four metrics.
main_metrics(df, all) ==
    [total |-> Len(df),
     delta |-> Len(df) - Len(all) + 15,
     high_risk |-> high_risk_count(df),
     archived |-> archived_sum(df),
     spreaders |-> Cardinality(unique(df, "user_id"))]

\* Lines 84-127: the sidebar widgets, the filter and the metrics.
Filter ==
    /\ pc = "filter"
    /\ LET platforms == multiselect(widget.platform_set, widget.platform,
                                    unique(posts_df, "platform"))
           categories == multiselect(widget.category_set, widget.category,
                                     unique(posts_df, "category"))
           fp == apply_filters(posts_df, platforms, categories, widget.min_score)
       IN /\ criteria' = [platforms |-> platforms, categories |-> categories,
                          minScore |-> widget.min_score, applied |-> TRUE]
          /\ filtered_posts' = fp
          /\ metrics' = main_metrics(fp, posts_df)
    /\ rendered' = rendered \cup {"sidebar", "metrics"}
    /\ pc' = "tab1"
    /\ UNCHANGED <<files, history, cache, session, reruns, posts_df, edges_df, dashboard,
                   G, degree_centrality, G_filtered, node_text, spreader_data, display_posts,
                   archive_buttons, recovery_queue, analytics, error>>

\* Lines 138-198: the counts by platform and by category, the timeline and
\* the scores handed to the histogram.
Tab1 ==
    /\ pc = "tab1"
    /\ dashboard' = [platform_counts |-> value_counts(filtered_posts, "platform"),
                     category_counts |-> value_counts(filtered_posts, "category"),
                     timeline_data |-> timeline(filtered_posts),
                     hist_x |-> [i \in DOMAIN filtered_posts |->
                                    filtered_posts[i].misinfo_score]]
    /\ rendered' = rendered \cup {"tab1"}
    /\ pc' = "tab2"
    /\ UNCHANGED <<files, history, cache, session, reruns, posts_df, edges_df, criteria,
                   filtered_posts, metrics, G, degree_centrality, G_filtered, node_text, spreader_data,
                   display_posts, archive_buttons, recovery_queue, analytics, error>>

\* top_spreaders without the sort: the nodes in G.nodes() order.
top_spreaders_unsorted(g, centrality) ==
    {Head_n(spreader_rows(g, centrality), SpreaderRows)}

\* Lines 321-326: the spreader table, sorted by 'Connections' and cut to 10.
\* The set of tables the code may produce.
top_spreaders(g, centrality) ==
    {Head_n(t, SpreaderRows) :
        t \in sort_values_desc(spreader_rows(g, centrality), "connections")}

\* from_pandas_edgelist given only the edge rows with an endpoint among the
\* users of the working set.
from_pandas_edgelist_working_set(df) ==
    LET allowed == unique(filtered_posts, "user_id")
        rows == boolean_index(df, [i \in DOMAIN df |->
                    df[i].source \in allowed \/ df[i].target \in allowed])
        named == [k \in 1..(2 * Len(rows)) |->
                     IF k % 2 = 1 THEN rows[(k + 1) \div 2].source
                     ELSE rows[k \div 2].target]
        first == [k \in DOMAIN named |-> \A j \in 1..(k - 1) : named[j] # named[k]]
        joins(i, u, v) == \/ rows[i].source = u /\ rows[i].target = v
                          \/ rows[i].source = v /\ rows[i].target = u
        nbrs(u) == {v \in Range(named) : \E i \in DOMAIN rows : joins(i, u, v)}
        last(u, v) == CHOOSE i \in DOMAIN rows :
                          /\ joins(i, u, v)
                          /\ \A j \in DOMAIN rows : joins(j, u, v) => j <= i
    IN [nodes |-> boolean_index(named, first),
        adj |-> [u \in Range(named) |-> [v \in nbrs(u) |-> rows[last(u, v)].weight]]]

\* nx.from_pandas_edgelist(edges_df, 'source', 'target', edge_attr='weight'):
\* G.add_edge(source, target, weight=weight) for each row in order, on an
\* undirected simple graph.  A node is added when a row first names it, the
\* source before the target; adj[u][v] and adj[v][u] hold the weight of the
\* last row that joins u and v.
from_pandas_edgelist(df) ==
    LET named == [k \in 1..(2 * Len(df)) |->
                     IF k % 2 = 1 THEN df[(k + 1) \div 2].source ELSE df[k \div 2].target]
        first == [k \in DOMAIN named |-> \A j \in 1..(k - 1) : named[j] # named[k]]
        joins(i, u, v) == \/ df[i].source = u /\ df[i].target = v
                          \/ df[i].source = v /\ df[i].target = u
        nbrs(u) == {v \in Range(named) : \E i \in DOMAIN df : joins(i, u, v)}
        last(u, v) == CHOOSE i \in DOMAIN df :
                          /\ joins(i, u, v)
                          /\ \A j \in DOMAIN df : joins(j, u, v) => j <= i
    IN [nodes |-> boolean_index(named, first),
        adj |-> [u \in Range(named) |-> [v \in nbrs(u) |-> df[last(u, v)].weight]]]

\* Lines 200-328: the graph of the whole edges table, its degree centrality,
\* the network restricted by the minimum connections slider with the hover
\* text of its nodes, and the spreader table.  sort_values is not stable, but
\* it is a function: sorting the same rows again gives the same order.
Tab2 ==
    /\ pc = "tab2"
    /\ LET g == from_pandas_edgelist(edges_df)
           c == nx_degree_centrality(g)
           g_filtered == subgraph(g, filtered_nodes(g, widget.min_connections))
           rows == spreader_rows(g, c)
       IN /\ G' = g
          /\ degree_centrality' = c
          /\ G_filtered' = g_filtered
          /\ node_text' = node_trace(g_filtered, c)
          /\ IF sorted_spreaders.seen /\ sorted_spreaders.input = rows
             THEN /\ spreader_data' = sorted_spreaders.output
                  /\ sorted_spreaders' = sorted_spreaders
             ELSE /\ spreader_data' \in top_spreaders(g, c)
                  /\ sorted_spreaders' =
                         [seen |-> TRUE, input |-> rows, output |-> spreader_data']
          /\ first_graph_view' =
                 IF first_graph_view.seen THEN first_graph_view
                 ELSE [seen |-> TRUE, criteria |-> criteria, G |-> g,
                       degree_centrality |-> c, spreader_data |-> spreader_data',
                       edges_df |-> edges_df]
    /\ rendered' = rendered \cup {"tab2"}
    /\ pc' = "tab3"
    /\ UNCHANGED <<files, cache, session, reruns, posts_df, edges_df, criteria,
                   filtered_posts, metrics, dashboard, display_posts,
                   archive_buttons, recovery_queue, analytics, error>>

\* Lines 349-354: the column the sort selectbox names.
sort_column(sort_by) ==
    IF sort_by = "Timestamp" THEN "timestamp"
    ELSE IF sort_by = "Misinfo Score" THEN "misinfo_score"
    ELSE "shares"

\* Lines 341-346: the search.  An empty term keeps the working set.
search_posts(df, term) ==
    IF term # <<>> THEN boolean_index(df, str_contains(df, "content", term)) ELSE df

\* Line 377: the post shows "Archived" when archived and archive_url is a
\* non-empty value; an empty CSV cell is NaN.
shows_archived(row) == row.archived /\ row.archive_url # ""

\* on_archive_click marking the post archived in what load_data holds.
on_archive_click_marks(c, post_id) ==
    [c EXCEPT !.posts = [i \in DOMAIN c.posts |->
        IF c.posts[i].post_id = post_id
        THEN [c.posts[i] EXCEPT !.archived = TRUE, !.archive_url = "url"]
        ELSE c.posts[i]]]

\* Lines 382-383: a click on "Archive <post_id>" draws st.info and changes
\* nothing: what load_data holds after the click.
on_archive_click(c, post_id) == c

\* Lines 330-385: search, sort, and the first 20 posts with their buttons.
Tab3 ==
    /\ pc = "tab3"
    /\ IF widget.search_term # <<>> /\ re_error(widget.search_term)
       THEN /\ pc' = "error"
            /\ error' = "re.error"
            /\ rendered' = rendered \cup {"search"}
            /\ UNCHANGED <<cache, display_posts, archive_buttons>>
       ELSE /\ display_posts' \in
                   sort_values_desc(search_posts(filtered_posts, widget.search_term),
                                    sort_column(widget.sort_by))
            /\ archive_buttons' =
                   {r.post_id : r \in {x \in Range(Head_n(display_posts', DisplayRows)) :
                                           ~shows_archived(x)}}
            /\ IF clicked.button = "archive" /\ clicked.post_id \in archive_buttons'
               THEN /\ cache' = on_archive_click(cache, clicked.post_id)
                    /\ rendered' = rendered \cup {"search", "tab3", "queued"}
               ELSE /\ cache' = cache
                    /\ rendered' = rendered \cup {"search", "tab3"}
            /\ pc' = "tab4"
            /\ error' = error
    /\ UNCHANGED <<files, history, session, reruns, posts_df, edges_df, criteria,
                   filtered_posts, metrics, dashboard, G, degree_centrality, G_filtered, node_text,
                   spreader_data, recovery_queue, analytics>>

\* Lines 461-463: the unarchived posts of the working set, the first 5.
recovery(df) ==
    Head_n(boolean_index(df, [i \in DOMAIN df |-> df[i].archived = FALSE]), RecoveryRows)

\* Lines 387-464: the live feed (only under auto_refresh), the static alerts
\* and their three buttons, and the recovery queue.
Tab4 ==
    /\ pc = "tab4"
    /\ recovery_queue' = recovery(filtered_posts)
    /\ rendered' = rendered \cup {"tab4"}
           \cup (IF widget.auto_refresh THEN {"live_feed"} ELSE {})
           \cup (IF clicked.button \in {"hospital_alert", "faq", "hospital_report"}
                 THEN {clicked.button} ELSE {})
    /\ pc' = "tab5"
    /\ UNCHANGED <<files, history, cache, session, reruns, posts_df, edges_df, criteria,
                   filtered_posts, metrics, dashboard, G, degree_centrality, G_filtered, node_text,
                   spreader_data, display_posts, archive_buttons, analytics, error>>

\* to_csv writes a timestamp back as the text of its day and minute.
to_csv(df) ==
    [i \in DOMAIN df |->
        [df[i] EXCEPT !.timestamp = <<df[i].timestamp \div 1440, df[i].timestamp % 1440>>]]

\* Lines 496-517: the numbers of the summary report.
summary_report(df, spreaders) ==
    [total |-> Len(df),
     high_risk |-> high_risk_count(df),
     archived |-> archived_sum(df),
     spreaders |-> Cardinality(unique(df, "user_id")),
     platform |-> value_counts(df, "platform"),
     category |-> value_counts(df, "category"),
     status |-> value_counts(df, "status"),
     top_spreaders |-> Head_n(spreaders, SummarySpreaderRows)]

\* Lines 473-523: what the clicked export button offers for download.
export(button, df, edges, spreaders) ==
    IF button = "export_posts" THEN to_csv(df)
    ELSE IF button = "export_network" THEN edges
    ELSE IF button = "export_summary" THEN <<summary_report(df, spreaders)>>
    ELSE <<>>

\* st.columns(n) raises StreamlitAPIException unless n is positive.
st_columns_raises(n) == n <= 0

\* Lines 466-634: the export buttons, the engagement chart, the status
\* metrics in st.columns(len(status_data)), then the static footer.
Tab5 ==
    /\ pc = "tab5"
    /\ LET status_data == value_counts(filtered_posts, "status")
           is_export == clicked.button \in {"export_posts", "export_network", "export_summary"}
       IN /\ analytics' =
                 [download |-> IF is_export THEN clicked.button ELSE "none",
                  data |-> export(clicked.button, filtered_posts, edges_df, spreader_data),
                  engagement_data |-> nlargest(filtered_posts, EngagementRows, "shares"),
                  status_data |-> status_data]
          /\ IF st_columns_raises(Cardinality(DOMAIN status_data))
             THEN /\ pc' = "error"
                  /\ error' = "StreamlitAPIException"
                  /\ rendered' = rendered \cup {"export_buttons", "engagement"}
             ELSE /\ pc' = "done"
                  /\ error' = error
                  /\ rendered' = rendered \cup {"export_buttons", "engagement",
                                                "tab5", "footer"}
    /\ UNCHANGED <<files, history, cache, session, reruns, posts_df, edges_df, criteria,
                   filtered_posts, metrics, dashboard, G, degree_centrality, G_filtered, node_text,
                   spreader_data, display_posts, archive_buttons, recovery_queue>>

\* ------------------------------------------------------------ the user
\* The values the user picks from.
MinScores == {0, DefaultMinScore, 100}
MinConnections == {1, DefaultMinConnections, 3}
SearchTerms == {<<>>, <<"a">>, <<"B">>, <<".">>, <<"(">>, <<"a", "*">>, <<"a", "b">>}
SortChoices == {"Timestamp", "Misinfo Score", "Shares"}
AlertButtons == {"hospital_alert", "faq", "hospital_report"}
ExportButtons == {"export_posts", "export_network", "export_summary"}

\* The script is not running: it finished, stopped, or raised.
RunEnded == pc \in {"done", "stopped", "error"}

\* A changed widget or a clicked button makes Streamlit run the script again.
Interact(w, c) ==
    /\ interactions < MaxInteractions
    /\ interactions' = interactions + 1
    /\ widget' = w
    /\ clicked' = c
    /\ reruns' = 0
    /\ RunStarts
    /\ UNCHANGED <<files, history, cache>>

\* The Live Updates checkbox is drawn first, so it is on every page, also
\* while the script keeps rerunning.
CheckLiveUpdates ==
    /\ RunEnded \/ reruns > 0
    /\ Interact([widget EXCEPT !.auto_refresh = ~widget.auto_refresh], NoClick)

SelectPlatform ==
    /\ RunEnded /\ "sidebar" \in rendered
    /\ \E S \in SUBSET unique(posts_df, "platform") :
           /\ S # criteria.platforms
           /\ Interact([widget EXCEPT !.platform_set = TRUE, !.platform = S], NoClick)

SelectCategory ==
    /\ RunEnded /\ "sidebar" \in rendered
    /\ \E S \in SUBSET unique(posts_df, "category") :
           /\ S # criteria.categories
           /\ Interact([widget EXCEPT !.category_set = TRUE, !.category = S], NoClick)

SetMinScore ==
    /\ RunEnded /\ "sidebar" \in rendered
    /\ \E m \in MinScores \ {widget.min_score} :
           Interact([widget EXCEPT !.min_score = m], NoClick)

SetMinConnections ==
    /\ RunEnded /\ "tab2" \in rendered
    /\ \E k \in MinConnections \ {widget.min_connections} :
           Interact([widget EXCEPT !.min_connections = k], NoClick)

SetSearchTerm ==
    /\ RunEnded /\ "search" \in rendered
    /\ \E t \in SearchTerms \ {widget.search_term} :
           Interact([widget EXCEPT !.search_term = t], NoClick)

SetSortBy ==
    /\ RunEnded /\ "search" \in rendered
    /\ \E b \in SortChoices \ {widget.sort_by} :
           Interact([widget EXCEPT !.sort_by = b], NoClick)

ClickArchive ==
    /\ RunEnded
    /\ \E id \in archive_buttons : Interact(widget, Click("archive", id))

ClickAlertButton ==
    /\ RunEnded /\ "tab4" \in rendered
    /\ \E b \in AlertButtons : Interact(widget, Click(b, 0))

ClickExportButton ==
    /\ RunEnded /\ "export_buttons" \in rendered
    /\ \E b \in ExportButtons : Interact(widget, Click(b, 0))

Next ==
    \/ Toggle
    \/ Load
    \/ Filter
    \/ Tab1
    \/ Tab2
    \/ Tab3
    \/ Tab4
    \/ Tab5
    \/ CheckLiveUpdates
    \/ SelectPlatform
    \/ SelectCategory
    \/ SetMinScore
    \/ SetMinConnections
    \/ SetSearchTerm
    \/ SetSortBy
    \/ ClickArchive
    \/ ClickAlertButton
    \/ ClickExportButton

Spec == Init /\ [][Next]_vars

\* ================================================================== claims
\* The row of a frame with the given post_id sits at this index.
IndexOf(df, id) == CHOOSE i \in DOMAIN df : df[i].post_id = id

\* The node's neighbours read off the edges table: every node that shares a
\* row with it (the node itself when a row names it twice).
Adjacent(n) ==
    {m \in Range(G.nodes) :
        \E i \in DOMAIN edges_df :
            \/ edges_df[i].source = n /\ edges_df[i].target = m
            \/ edges_df[i].source = m /\ edges_df[i].target = n}

HasSelfLoopRow == \E i \in DOMAIN edges_df : edges_df[i].source = edges_df[i].target

\* ------------------------------------------------------------------- C1
\* C1: once the filter has run, a post of the posts table is in the working
\* set exactly when its platform is selected, its category is selected and
\* its misinfo_score is at least minScore; the working set holds only posts
\* of the table, each once; an empty platform or category selection gives
\* an empty working set.
C1_FilterKeepsExactlyMatchingPosts ==
    criteria.applied =>
        /\ \A i \in DOMAIN posts_df :
               (posts_df[i] \in Range(filtered_posts)) <=>
                   /\ posts_df[i].platform \in criteria.platforms
                   /\ posts_df[i].category \in criteria.categories
                   /\ posts_df[i].misinfo_score >= criteria.minScore
        /\ Range(filtered_posts) \subseteq Range(posts_df)
        /\ IsInjective(filtered_posts)
        /\ (criteria.platforms = {} \/ criteria.categories = {}) => filtered_posts = <<>>

\* An empty platform selection empties the working set although some post
\* passes the category and score predicates.
C1_Witness ==
    /\ criteria.applied
    /\ criteria.platforms = {}
    /\ filtered_posts = <<>>
    /\ \E i \in DOMAIN posts_df :
           /\ posts_df[i].category \in criteria.categories
           /\ posts_df[i].misinfo_score >= criteria.minScore

\* ------------------------------------------------------------------- C2
\* C2: a script run whose working set is empty runs to its end without an
\* error, and every aggregate it computed is empty or zero.
C2_EmptyWorkingSetRunCompletes ==
    (criteria.applied /\ filtered_posts = <<>> /\ RunEnded) =>
        /\ pc = "done"
        /\ error = "none"
        /\ metrics.total = 0
        /\ dashboard = NoDashboard
        /\ analytics.engagement_data = <<>>
        /\ analytics.status_data = NoCounts

\* ------------------------------------------------------------------- C3
\* C3 as claimed: every node's degree centrality lies in [0,1], and is 0
\* when the graph has 0 or 1 node.
C3_CentralityInUnitInterval ==
    "tab2" \in rendered =>
        \A n \in Range(G.nodes) :
            /\ 0 <= degree_centrality[n].num
            /\ degree_centrality[n].num <= degree_centrality[n].den
            /\ Len(G.nodes) <= 1 => degree_centrality[n].num = 0

\* C3 as amended: the degree centrality of a node is its degree over
\* (number of nodes - 1) when the graph has more than one node, a self-loop
\* adding 2 to the degree, and is 1 for the node of a one-node graph; it
\* lies in [0,1] for every node when no row has source = target.
C3_CentralityIsDegreeOverOthers ==
    "tab2" \in rendered =>
        /\ DOMAIN degree_centrality = Range(G.nodes)
        /\ \A n \in Range(G.nodes) :
               LET d == Cardinality(Adjacent(n) \ {n}) + (IF n \in Adjacent(n) THEN 2 ELSE 0)
                   c == degree_centrality[n]
               IN /\ Len(G.nodes) <= 1 => c = [num |-> 1, den |-> 1]
                  /\ Len(G.nodes) > 1 => c = [num |-> d, den |-> Len(G.nodes) - 1]
                  /\ ~HasSelfLoopRow => (0 <= c.num /\ c.num <= c.den)

\* The scenario of the specification: three nodes, no self-loop, and the
\* middle node with centrality 2/2.
C3_Witness ==
    /\ "tab2" \in rendered
    /\ Len(G.nodes) = 3
    /\ ~HasSelfLoopRow
    /\ \E n \in Range(G.nodes) : degree_centrality[n] = [num |-> 2, den |-> 2]

\* ------------------------------------------------------------------- C4
\* C4 as claimed: the Connections value of every node is the number of
\* distinct nodes adjacent to it, also for a node with a self-referencing
\* edge.
C4_ConnectionsIsDistinctNeighbours ==
    "tab2" \in rendered =>
        \A i \in DOMAIN spreader_data :
            spreader_data[i].connections =
                Cardinality(Adjacent(spreader_data[i].user_id))

\* C4 as amended: the Connections value of a node is the number of distinct
\* other nodes adjacent to it, plus 2 when the node has a self-referencing
\* edge; repeated rows for a pair, in either direction, count once, and the
\* weight does not contribute.
C4_ConnectionsCountsSelfLoopTwice ==
    "tab2" \in rendered =>
        /\ \A n \in Range(G.nodes) :
               degree(G, n) =
                   Cardinality(Adjacent(n) \ {n}) + (IF n \in Adjacent(n) THEN 2 ELSE 0)
        /\ \A i \in DOMAIN spreader_data :
               /\ spreader_data[i].user_id \in Range(G.nodes)
               /\ spreader_data[i].connections = degree(G, spreader_data[i].user_id)

\* Two rows join the same pair in opposite directions, one with weight above
\* 1, and both nodes show one connection.
C4_Witness ==
    /\ "tab2" \in rendered
    /\ \E i, j \in DOMAIN edges_df :
           /\ i < j
           /\ edges_df[i].source = edges_df[j].target
           /\ edges_df[i].target = edges_df[j].source
           /\ edges_df[i].source # edges_df[i].target
           /\ edges_df[i].weight > 1
    /\ Len(spreader_data) = 2
    /\ \A i \in DOMAIN spreader_data : spreader_data[i].connections = 1

\* ------------------------------------------------------------------- C5
\* The place of the node id "user_<n>" among the ids as strings, n < 100:
\* by first digit, then a missing second digit before any second digit.
IdKey(n) == IF n < 10 THEN n * 11 ELSE (n \div 10) * 11 + (n % 10) + 1

\* C5 as claimed: the spreader table is in descending order of degree, and
\* nodes of equal degree are in ascending order of node id.
C5_SpreadersTiesByNodeId ==
    "tab2" \in rendered =>
        \A i, j \in DOMAIN spreader_data :
            i < j =>
                \/ spreader_data[i].connections > spreader_data[j].connections
                \/ /\ spreader_data[i].connections = spreader_data[j].connections
                   /\ IdKey(spreader_data[i].user_id) < IdKey(spreader_data[j].user_id)

\* C5 as amended: the spreader table holds min(10, number of nodes) distinct
\* nodes in non-increasing order of degree, and no node left out has a
\* larger degree than a node in the table; the order of nodes of equal
\* degree is not fixed by the node id.
C5_SpreadersByDegreeDescending ==
    "tab2" \in rendered =>
        /\ Len(spreader_data) = Min(SpreaderRows, Len(G.nodes))
        /\ \A i, j \in DOMAIN spreader_data :
               i < j =>
                   /\ spreader_data[i].connections >= spreader_data[j].connections
                   /\ spreader_data[i].user_id # spreader_data[j].user_id
        /\ \A i \in DOMAIN spreader_data :
               /\ spreader_data[i].user_id \in Range(G.nodes)
               /\ spreader_data[i].connections = degree(G, spreader_data[i].user_id)
               /\ \A n \in Range(G.nodes) \ {spreader_data[k].user_id : k \in DOMAIN spreader_data} :
                      degree(G, n) <= spreader_data[i].connections

\* The graph has more than 10 nodes and the table is cut to 10.
C5_Witness ==
    /\ "tab2" \in rendered
    /\ Len(G.nodes) > SpreaderRows
    /\ Len(spreader_data) = SpreaderRows
    /\ spreader_data[1].connections > spreader_data[SpreaderRows].connections

\* ------------------------------------------------------------------- C6
\* The term occurs in the text as a literal substring, letter case ignored.
LiteralContains(text, term) ==
    \E j \in 0..(Len(text) - Len(term)) :
        \A k \in DOMAIN term : Lower(text[j + k]) = Lower(term[k])

\* C6: the search raises no error for any term, and the posts it displays
\* are exactly the posts of the working set whose content contains the term
\* as a literal substring, letter case ignored (all of them for an empty
\* term).
C6_SearchIsLiteralSubstring ==
    "search" \in rendered =>
        /\ error # "re.error"
        /\ "tab3" \in rendered =>
               Range(display_posts) =
                   {r \in Range(filtered_posts) : LiteralContains(r.content, widget.search_term)}

\* ------------------------------------------------------------------- C7
\* top is the first min(n, size) rows of ws in descending order of col,
\* rows of equal col in their order in ws.
IsStableTop(top, ws, col, n) ==
    /\ Len(top) = Min(n, Len(ws))
    /\ Range(top) \subseteq Range(ws)
    /\ \A i, j \in DOMAIN top :
           i < j =>
               \/ top[i][col] > top[j][col]
               \/ /\ top[i][col] = top[j][col]
                  /\ IndexOf(ws, top[i].post_id) < IndexOf(ws, top[j].post_id)
    /\ \A x \in Range(ws) \ Range(top) :
           \A i \in DOMAIN top :
               \/ top[i][col] > x[col]
               \/ /\ top[i][col] = x[col]
                  /\ IndexOf(ws, top[i].post_id) < IndexOf(ws, x.post_id)

\* top is min(n, size) distinct rows of ws in non-increasing order of col,
\* and no row of ws left out has a larger col than a row of top.
IsTop(top, ws, col, n) ==
    /\ Len(top) = Min(n, Len(ws))
    /\ Range(top) \subseteq Range(ws)
    /\ IsInjective(top)
    /\ \A i, j \in DOMAIN top : i < j => top[i][col] >= top[j][col]
    /\ \A x \in Range(ws) \ Range(top) : \A i \in DOMAIN top : top[i][col] >= x[col]

\* The posts the sort of tab3 is given: the working set after the search.
Searched == search_posts(filtered_posts, widget.search_term)

C9_TablesUnchanged ==
    /\ cache.loaded => cache.posts = posts_file.rows /\ cache.edges = edges_file.rows
    /\ pc \notin {"toggle", "load", "stopped"} /\ cache.loaded =>
           /\ posts_df = convert_timestamps(posts_file.rows)
           /\ edges_df = edges_file.rows
    /\ clicked.button = "archive" /\ "tab3" \in rendered =>
           \A i \in DOMAIN posts_df :
               posts_df[i].post_id = clicked.post_id => ~shows_archived(posts_df[i])

\* The run started by a click on an Archive button has drawn "Queued for
\* archival" and ended with the same button on the page.
C9_Witness ==
    /\ clicked.button = "archive"
    /\ "queued" \in rendered
    /\ pc = "done"
    /\ clicked.post_id \in archive_buttons

\* ------------------------------------------------------------------ C10
\* C10: with Live Updates checked (and both tables readable) a script run
\* still gets to load_data and beyond: no run ends in st.rerun() before a
\* frame is drawn.
C10_LiveUpdatesRunIsNotCutShort ==
    (widget.auto_refresh /\ posts_file.state = "ok" /\ edges_file.state = "ok") =>
        reruns = 0

\* ------------------------------------------------------------------ C11
\* The edges of a graph, each as the set of its endpoints.
GraphEdges(g) == UNION {{{u, v} : v \in DOMAIN g.adj[u]} : u \in DOMAIN g.adj}

\* The pairs of users the rows of an edges table join, and the users named.
EdgePairs(df) == {{df[i].source, df[i].target} : i \in DOMAIN df}
EdgeUsers(df) == UNION EdgePairs(df)

\* C11: in every run that draws tab2, whatever platforms, categories and
\* minimum score are selected, the graph has the users and the pairs of the
\* whole edges file, and its nodes, edges, weights, degrees, centralities
\* and top spreaders table are those of the first run of the session that
\* drew tab2; the network export is the whole edges file.
C11_GraphViewIndependentOfFilters ==
    ("tab2" \in rendered /\ first_graph_view.seen) =>
        /\ Range(G.nodes) = EdgeUsers(edges_file.rows)
        /\ GraphEdges(G) = EdgePairs(edges_file.rows)
        /\ G.nodes = first_graph_view.G.nodes
        /\ G.adj = first_graph_view.G.adj
        /\ \A n \in Range(G.nodes) : degree(G, n) = degree(first_graph_view.G, n)
        /\ degree_centrality = first_graph_view.degree_centrality
        /\ spreader_data = first_graph_view.spreader_data
        /\ analytics.download = "export_network" =>
               /\ analytics.data = edges_file.rows
               /\ analytics.data = first_graph_view.edges_df

\* A later run under other criteria, with an empty working set, has drawn
\* the graph of a non-empty edges table.
C11_Witness ==
    /\ "tab2" \in rendered
    /\ first_graph_view.seen
    /\ criteria # first_graph_view.criteria
    /\ first_graph_view.criteria.applied
    /\ filtered_posts = <<>>
    /\ posts_df # <<>>
    /\ Len(G.nodes) >= 2
    /\ spreader_data # <<>>

\* ------------------------------------------------------------------ C12
\* The restricted graph has the nodes of G whose degree in G is at least k,
\* and the edges of G that join two of them.
RestrictedGraphIsInduced(k) ==
    /\ Range(G_filtered.nodes) = {n \in Range(G.nodes) : degree(G, n) >= k}
    /\ GraphEdges(G_filtered) =
           {e \in GraphEdges(G) : e \subseteq Range(G_filtered.nodes)}

\* C12: in a run that has drawn tab2 with the slider at k, the restricted
\* graph keeps exactly the nodes of degree >= k in G and the edges of G
\* between them, and the 'Connections' shown for each node drawn is its
\* degree in G: at least k, and the Connections the top spreaders table
\* shows for the same user.
C12_ShownConnectionsIsFullDegree ==
    "tab2" \in rendered =>
        /\ RestrictedGraphIsInduced(widget.min_connections)
        /\ \A i \in DOMAIN node_text :
               /\ node_text[i].connections = degree(G, node_text[i].node)
               /\ node_text[i].connections >= widget.min_connections
               /\ \A j \in DOMAIN spreader_data :
                      spreader_data[j].user_id = node_text[i].node =>
                          spreader_data[j].connections = node_text[i].connections
====
